---------------------------- MODULE Spec2Model ----------------------------
(***************************************************************************)
(* Model of tide's endpoint layer (src/endpoint.rs): the Endpoint trait    *)
(* and its blanket implementation for every                                *)
(*     F: Fn(Request<State>) -> Fut,  Fut: Future,  Fut::Output:           *)
(*     IntoResponse.                                                       *)
(*                                                                         *)
(*     fn call(&self, cx: Request<State>) -> Self::Fut {                   *)
(*         let fut = (self)(cx);                                           *)
(*         Box::pin(async move { fut.await.into_response() })              *)
(*     }                                                                   *)
(*                                                                         *)
(* The state is what a server around this code holds: the registered       *)
(* handlers, the invocations made so far (numbered in the order of the     *)
(* calls), the heap of boxed composed futures, and two observable traces   *)
(* of the wrapped callable: the log of its synchronous executions and a    *)
(* counter its native future increments when it resolves.                  *)
(***************************************************************************)
EXTENDS Naturals, Integers, Sequences, FiniteSets, TLC

\* ------------------------------------------------------------------ bounds
\* Number of invocations of call made during a run.
NumInv == 2
\* Largest number of polls for which a resolving native future reports Pending.
MaxPending == 2

Inv == 1..NumInv
Addr == 1..NumInv

\* ------------------------------------------------------------------ inputs
\* Two handler capabilities, obtained by adapting the same function twice.
Handlers == {"h1", "h2"}
\* Request contexts handed to call.
Contexts == {"a", "b"}
\* The user functions of the adaptable shape that are registered:
\*   hello: the doc example, resolves to String::from("hello");
\*   echo:  resolves to a String computed from the request;
\*   fail:  resolves to a value representing an application error.
Callables == {"hello", "echo", "fail"}
\* A native future that reports Pending on every poll.
Never == -1
\* For how many polls the native future reports Pending.
Pends == (0..MaxPending) \cup {Never}

NoVal == [tag |-> "none", text |-> ""]
NoNative == [id |-> 0, left |-> 0, started |-> FALSE, val |-> NoVal]
FreeCell == [state |-> "free", native |-> NoNative, conv |-> 0]
IdleInv ==
  [pc |-> "idle", h |-> "none", cx |-> "none", box |-> 0, polled |-> FALSE,
   resps |-> <<>>]
Pending == [ready |-> FALSE, val |-> NoVal]

VARIABLES
  fn,       \* the user function that was registered
  handler,  \* handler capability -> the callable it holds
  inv,      \* invocation -> the caller's side of it
  heap,     \* address -> boxed composed future
  calls,    \* log of the synchronous executions of the callable
  counter   \* invocation -> effects its native future performed on resolving

vars == <<fn, handler, inv, heap, calls, counter>>

\* ------------------------------------------------ the wrapped callable (F)
\* The value the callable's native future resolves to (Fut::Output): a
\* function of the registered function and of the request. What a handler
\* shares with other handlers it reaches through the State inside the
\* request; a fault (panic) inside the callable is not part of this layer.
Output(f, cx) ==
  CASE f = "hello" -> [tag |-> "str", text |-> "hello"]
    [] f = "echo" -> [tag |-> "str", text |-> cx]
    [] OTHER -> [tag |-> "err", text |-> cx]

\* into_response of crate::response: a String is the 200 response with that
\* body, the application error value the 500 response.
IntoResponse(v) ==
  IF v.tag = "str"
  THEN [status |-> 200, body |-> v.text]
  ELSE [status |-> 500, body |-> v.text]

Responses == [status : {200, 500}, body : Contexts \cup {"hello"}]

\* Fut: the native future (self)(cx) returns for invocation id, which
\* reports Pending p times before it resolves.
NativeFut(f, cx, id, p) ==
  [id |-> id, left |-> p, started |-> FALSE, val |-> Output(f, cx)]

\* One poll of the native future: Ready with its value, performing its
\* effect as it resolves, or Pending and one step further.
PollNative(n) ==
  IF n.left = 0
  THEN [fut |-> NoNative, out |-> [ready |-> TRUE, val |-> n.val], fired |-> 1]
  ELSE [fut |-> [n EXCEPT !.left = IF @ = Never THEN Never ELSE @ - 1,
                          !.started = TRUE],
        out |-> Pending, fired |-> 0]

\* ------------------------------------------------------ the blanket impl
\* impl Endpoint<State> for F: the handler capability is the callable.
Adapt(f) == f

CallTwice(log, h, cx) ==
  Append(Append(log, [h |-> h, cx |-> cx]), [h |-> h, cx |-> cx])

CallLazily(log, h, cx) == log

\* let fut = (self)(cx): the callable runs once, synchronously, inside call.
CallSelf(log, h, cx) == Append(log, [h |-> h, cx |-> cx])

SelfFnMut(f) == IF f = "hello" THEN "fail" ELSE "hello"

\* &self: call borrows the handler immutably.
SelfAfterCall(f) == f

\* async move { fut.await.into_response() } before its first poll.
AsyncBlock(n) == [state |-> "awaiting", native |-> n, conv |-> 0]

Min(S) == CHOOSE x \in S : \A y \in S : x <= y

BoxPinCached(hp) ==
  IF \E a \in Addr : hp[a].state = "awaiting"
  THEN Min({a \in Addr : hp[a].state = "awaiting"})
  ELSE Min({a \in Addr : hp[a].state = "free"})

\* Box::pin: a fresh heap allocation for every call.
BoxPin(hp) == Min({a \in Addr : hp[a].state = "free"})

PollComposedDefault(c) ==
  LET r == PollNative(c.native) IN
  IF r.out.ready
  THEN [fut |-> [state |-> "resolved", native |-> r.fut, conv |-> c.conv],
        out |-> [ready |-> TRUE, val |-> [status |-> 200, body |-> "hello"]],
        fired |-> r.fired]
  ELSE [fut |-> [c EXCEPT !.native = r.fut], out |-> Pending, fired |-> 0]

PollComposedPropagate(c) ==
  LET r == PollNative(c.native) IN
  IF r.out.ready
  THEN IF r.out.val.tag = "err"
       THEN [fut |-> [state |-> "failed", native |-> r.fut, conv |-> c.conv],
             out |-> Pending, fired |-> r.fired]
       ELSE [fut |-> [state |-> "resolved", native |-> r.fut,
                      conv |-> c.conv + 1],
             out |-> [ready |-> TRUE, val |-> IntoResponse(r.out.val)],
             fired |-> r.fired]
  ELSE [fut |-> [c EXCEPT !.native = r.fut], out |-> Pending, fired |-> 0]

PollComposedYield(c) ==
  LET r == PollNative(c.native) IN
  IF r.out.ready
  THEN [fut |-> [state |-> "converting", native |-> r.fut, conv |-> c.conv],
        out |-> Pending, fired |-> r.fired]
  ELSE [fut |-> [c EXCEPT !.native = r.fut], out |-> Pending, fired |-> 0]

PollComposedStall(c) ==
  LET r == PollNative(c.native) IN
  IF r.out.ready
  THEN [fut |-> c, out |-> Pending, fired |-> 0]
  ELSE [fut |-> [c EXCEPT !.native = r.fut], out |-> Pending, fired |-> 0]

PollComposedAgain(c) ==
  LET r == PollNative(c.native) IN
  IF r.out.ready
  THEN [fut |-> [c EXCEPT !.conv = c.conv + 1],
        out |-> [ready |-> TRUE, val |-> IntoResponse(r.out.val)],
        fired |-> r.fired]
  ELSE [fut |-> [c EXCEPT !.native = r.fut], out |-> Pending, fired |-> 0]

\* One poll of the composed future: fut.await polls the native future and
\* returns Pending with it; when the native future is Ready the block goes
\* on in the same poll, converts the value and returns Ready.
PollComposed(c) ==
  LET r == PollNative(c.native) IN
  IF r.out.ready
  THEN [fut |-> [state |-> "resolved", native |-> r.fut, conv |-> c.conv + 1],
        out |-> [ready |-> TRUE, val |-> IntoResponse(r.out.val)],
        fired |-> r.fired]
  ELSE [fut |-> [c EXCEPT !.native = r.fut], out |-> Pending, fired |-> 0]

DropBoxDetached(c) == [cell |-> FreeCell, fired |-> 1]

\* Dropping the box drops the async block and, with it, the native future
\* the block owns: nothing of it runs afterwards.
DropBox(c) == [cell |-> FreeCell, fired |-> 0]

\* ---------------------------------------------------------------- actions
Init ==
  /\ fn \in Callables
  /\ handler = [h \in Handlers |-> Adapt(fn)]
  /\ inv = [i \in Inv |-> IdleInv]
  /\ heap = [a \in Addr |-> FreeCell]
  /\ calls = <<>>
  /\ counter = [i \in Inv |-> 0]

\* Invocations are numbered in the order of the calls.
IsNext(i) == inv[i].pc = "idle" /\ \A j \in Inv : j < i => inv[j].pc # "idle"

\* handler h's call(cx), the i-th call made.
Call(i, h, cx, p) ==
  /\ IsNext(i)
  /\ calls' = CallSelf(calls, h, cx)
  /\ LET a == BoxPin(heap) IN
       /\ heap' = [heap EXCEPT ![a] = AsyncBlock(NativeFut(handler[h], cx, i, p))]
       /\ inv' = [inv EXCEPT ![i] = [pc |-> "holding", h |-> h, cx |-> cx,
                                     box |-> a, polled |-> FALSE,
                                     resps |-> <<>>]]
  /\ handler' = [handler EXCEPT ![h] = SelfAfterCall(@)]
  /\ UNCHANGED <<fn, counter>>

\* The executor drives invocation i's future by one poll. A future is not
\* polled again once it has returned Ready (the contract of Future::poll).
Poll(i) ==
  /\ inv[i].pc = "holding"
  /\ heap[inv[i].box].state = "awaiting"
  /\ LET b == inv[i].box
         r == PollComposed(heap[b])
         id == heap[b].native.id
     IN
       /\ heap' = [heap EXCEPT ![b] = r.fut]
       /\ counter' = [counter EXCEPT ![id] = @ + r.fired]
       /\ inv' = [inv EXCEPT ![i] =
                    IF r.out.ready
                    THEN [@ EXCEPT !.pc = "got", !.polled = TRUE,
                                   !.resps = Append(@, r.out.val)]
                    ELSE [@ EXCEPT !.polled = TRUE]]
  /\ UNCHANGED <<fn, handler, calls>>

\* The caller drops invocation i's future before it has resolved.
Drop(i) ==
  /\ inv[i].pc = "holding"
  /\ LET b == inv[i].box
         r == DropBox(heap[b])
         id == heap[b].native.id
     IN
       /\ heap' = [heap EXCEPT ![b] = r.cell]
       /\ counter' = [counter EXCEPT ![id] = @ + r.fired]
  /\ inv' = [inv EXCEPT ![i].pc = "dropped"]
  /\ UNCHANGED <<fn, handler, calls>>

Next ==
  \/ \E i \in Inv, h \in Handlers, cx \in Contexts, p \in Pends : Call(i, h, cx, p)
  \/ \E i \in Inv : Poll(i)
  \/ \E i \in Inv : Drop(i)

Spec == Init /\ [][Next]_vars

\* The futures are driven fairly and never dropped.
DrivenNext ==
  \/ \E i \in Inv, h \in Handlers, cx \in Contexts, p \in Pends : Call(i, h, cx, p)
  \/ \E i \in Inv : Poll(i)

DrivenSpec == Init /\ [][DrivenNext]_vars /\ \A i \in Inv : WF_vars(Poll(i))

\* ----------------------------------------------------------------- claims
Got(i) == inv[i].pc = "got"
Holding(i) == inv[i].pc = "holding"
Dropped(i) == inv[i].pc = "dropped"
Called(i) == inv[i].pc # "idle"
Cell(i) == heap[inv[i].box]

\* The reference computation of conversion-equivalence: f(cx) awaited by
\* hand, poll after poll, and into_response applied to what it resolves to.
RECURSIVE AwaitNative(_)
AwaitNative(n) ==
  LET r == PollNative(n) IN IF r.out.ready THEN r.out.val ELSE AwaitNative(r.fut)

DirectResponse(f, cx, p) == IntoResponse(AwaitNative(NativeFut(f, cx, 0, p)))

\* C1: a resolved invocation holds exactly the response that awaiting
\* f(cx) directly and converting its value gives, however long the native
\* future stays pending; hello gives the 200 response with body "hello".
ConversionEquivalence ==
  \A i \in Inv :
    Got(i) =>
      /\ \A p \in 0..MaxPending :
           inv[i].resps = <<DirectResponse(fn, inv[i].cx, p)>>
      /\ fn = "hello" => inv[i].resps = <<[status |-> 200, body |-> "hello"]>>

ConversionEquivalenceWitness ==
  \E i \in Inv :
    /\ Got(i)
    /\ fn = "echo"
    /\ inv[i].resps = <<[status |-> 200, body |-> inv[i].cx]>>

\* C2: in the step that drops an unresolved future, and in every step
\* after it, the native future's effect does not occur: the counter of a
\* dropped invocation stays at zero and its box is gone.
CancellationPropagates ==
  [][\A i \in Inv :
       Dropped(i)' =>
         /\ counter'[i] = counter[i]
         /\ counter'[i] = 0
         /\ Dropped(i) => inv'[i] = inv[i]
         /\ ~Dropped(i) => heap'[inv[i].box] = FreeCell]_vars

CancellationWitness ==
  \E i \in Inv : Dropped(i) /\ inv[i].polled /\ counter[i] = 0

\* C3 as stated: every future call returns, driven fairly, resolves.
AlwaysResolves == \A i \in Inv : Holding(i) ~> Got(i)

\* C3 amended: a fairly driven future whose native future resolves after
\* finitely many polls resolves, and what it resolved to is a Response.
ResolvesWhenNativeDoes ==
  /\ \A i \in Inv : (Holding(i) /\ Cell(i).native.left # Never) ~> Got(i)
  /\ [](\A i \in Inv : Got(i) => inv[i].resps \in Seq(Responses))

ResolvesWitness ==
  \E i, j \in Inv :
    /\ Got(i)
    /\ Holding(j) /\ inv[j].polled /\ Cell(j).native.left = Never

\* C4: what an invocation owns: its record, its boxed future, its counter.
View(i) ==
  <<inv[i], IF inv[i].pc \in {"holding", "got"} THEN Cell(i) ELSE FreeCell,
    counter[i]>>

\* C4: no step changes what two invocations own; live invocations never
\* share a box; the response is the one its own handler and context give.
Isolation ==
  [][/\ \A i, j \in Inv :
          i # j => ~(View(i)' # View(i) /\ View(j)' # View(j))
     /\ \A i, j \in Inv :
          (i # j /\ inv'[i].pc \in {"holding", "got"}
                 /\ inv'[j].pc \in {"holding", "got"})
            => inv'[i].box # inv'[j].box
     /\ \A i \in Inv :
          Got(i)' =>
            inv'[i].resps = <<IntoResponse(Output(handler'[inv'[i].h], inv'[i].cx))>>
    ]_vars

IsolationWitness ==
  \E i, j \in Inv :
    /\ Got(i) /\ Holding(j) /\ inv[j].polled
    /\ inv[i].h = inv[j].h /\ inv[i].cx # inv[j].cx

\* C5: an application error value comes out as the 500 response, as a
\* normal resolution; no future and no invocation is ever in a fault state.
TotalConversion ==
  /\ \A i \in Inv :
       (Got(i) /\ Output(handler[inv[i].h], inv[i].cx).tag = "err")
         => /\ Len(inv[i].resps) = 1
            /\ inv[i].resps[1].status = 500
            /\ Cell(i).state = "resolved"
  /\ \A i \in Inv : inv[i].pc \in {"idle", "holding", "got", "dropped"}
  /\ \A a \in Addr : heap[a].state \in {"free", "awaiting", "resolved"}
  /\ \A i \in Inv : Called(i) /\ ~Dropped(i) /\ ~Got(i) => Cell(i).state = "awaiting"

TotalConversionWitness ==
  \E i \in Inv :
    Got(i) /\ fn = "fail" /\ inv[i].resps = <<[status |-> 500, body |-> inv[i].cx]>>

NoSwallowRetryAlter ==
  /\ Len(calls) = Cardinality({i \in Inv : Called(i)})
  /\ \A i \in Inv :
       Called(i) =>
         /\ i <= Len(calls)
         /\ calls[i] = [h |-> inv[i].h, cx |-> inv[i].cx]
         /\ counter[i] <= 1
  /\ \A i \in Inv :
       Holding(i) =>
         /\ Cell(i).conv = 0 /\ inv[i].resps = <<>> /\ counter[i] = 0
         /\ Cell(i).native.id = i
         /\ Cell(i).native.val = Output(handler[inv[i].h], inv[i].cx)
  /\ \A i \in Inv :
       Got(i) =>
         /\ Cell(i).conv = 1 /\ counter[i] = 1
         /\ inv[i].resps = <<IntoResponse(Output(handler[calls[i].h], calls[i].cx))>>

NoSwallowRetryAlterWitness ==
  \E i, j \in Inv : i # j /\ Got(i) /\ Got(j) /\ Len(calls) = 2

\* C8: a boxed future is awaiting or resolved; it goes from awaiting to
\* resolved only, a resolved one never changes again, and it has yielded
\* one response exactly when it is resolved, none before.
TwoStatePipeline ==
  [][/\ \A a \in Addr :
          /\ heap'[a].state \in {"free", "awaiting", "resolved"}
          /\ heap[a].state = "resolved" => heap'[a] = heap[a]
          /\ heap'[a].state = "resolved" => heap[a].state \in {"awaiting", "resolved"}
     /\ \A i \in Inv :
          /\ Len(inv'[i].resps) <= 1
          /\ Holding(i)' => Cell(i)'.state = "awaiting" /\ inv'[i].resps = <<>>
          /\ Got(i)' => Cell(i)'.state = "resolved" /\ Len(inv'[i].resps) = 1
          /\ Got(i) => inv'[i] = inv[i]
    ]_vars

TwoStateWitness ==
  \E i, j \in Inv :
    /\ Got(i) /\ Cell(i).state = "resolved"
    /\ Holding(j) /\ Cell(j).state = "awaiting" /\ Cell(j).native.started

\* C9: a poll of invocation i took place in the step.
PolledInStep(i) ==
  /\ Holding(i)
  /\ ~Dropped(i)'
  /\ inv'[i] # inv[i] \/ heap'[inv[i].box] # heap[inv[i].box]

\* C9: a poll of the composed future is Pending exactly when its poll of
\* the native future is: the step in which the native future resolves (and
\* performs its effect) is the step in which the composed future resolves.
SingleSuspensionPoint ==
  [][\A i \in Inv :
       PolledInStep(i) =>
         /\ Got(i)' <=> Cell(i).native.left = 0
         /\ Got(i)' <=> counter'[i] = counter[i] + 1
         /\ Holding(i)' <=> counter'[i] = counter[i]]_vars

SingleSuspensionWitness ==
  \E i, j \in Inv :
    /\ Got(i) /\ counter[i] = 1
    /\ Holding(j) /\ inv[j].polled /\ Cell(j).native.left = 0

\* C10: once call has returned the callable has run, also when the future
\* is never polled or is dropped unpolled; until the first poll the native
\* future has not been polled and has performed no effect.
EagerInvocation ==
  /\ \A i \in Inv :
       Called(i) => i <= Len(calls) /\ calls[i] = [h |-> inv[i].h, cx |-> inv[i].cx]
  /\ \A i \in Inv :
       (Holding(i) /\ ~inv[i].polled) =>
         /\ ~Cell(i).native.started
         /\ Cell(i).native.left \in Pends
         /\ counter[i] = 0
  /\ \A i \in Inv : (Dropped(i) /\ ~inv[i].polled) => counter[i] = 0

EagerInvocationWitness ==
  \E i \in Inv : Dropped(i) /\ ~inv[i].polled /\ i <= Len(calls)

=============================================================================
